---- MODULE Spec2Model ----
(***************************************************************************)
(* Model of the tx-engine ledger: Account (account.rs) and                 *)
(* TransactionEngine (engine.rs).                                          *)
(*                                                                         *)
(* Decimal amounts are modelled as integers counting the smallest unit in  *)
(* use; within the bounds below rust_decimal addition, subtraction,        *)
(* negation and comparison are exact, so integer arithmetic is what the    *)
(* code computes.                                                          *)
(***************************************************************************)
EXTENDS Integers, Sequences, FiniteSets, TLC

\* Bounds of the model.
MaxClient == 2
MaxTx == 2
MaxAmount == 2
MaxEngineAmount == 1
MaxSteps == 3
MaxCalls == 6
MaxWideTx == 3
MaxWideCalls == 5
MaxWrites == 4

ClientIds == 1..MaxClient
TxIds == 1..MaxTx
\* Transaction ids of the runs of one Account that need a third id.
WideTxIds == 1..MaxWideTx
\* Amounts handed to deposit/withdraw: one negative value and 0..MaxAmount.
Amounts == (-1)..MaxAmount
\* Amounts of the transactions handed to the engine.
EngineAmounts == (-1)..MaxEngineAmount

VARIABLES
    account,    \* an Account used on its own, as Account::new(1)
    accounts,   \* TransactionEngine.accounts: client_id -> Account
    last,       \* the most recent call and what it returned
    solo,       \* history: one Account per client, called without the engine
    steps,      \* number of calls made so far
    run,        \* main.rs run(): where it stands, its source, report and result
    csv_report  \* a CsvAccountReport used on its own

vars == <<account, accounts, last, solo, steps, run, csv_report>>

----------------------------------------------------------------------------
\* result.rs: TxResult / TxError

Ok == [kind |-> "Ok", msg |-> "none"]

InvalidArgument(m) == [kind |-> "InvalidArgument", msg |-> m]

InvalidOperation(m) == [kind |-> "InvalidOperation", msg |-> m]

IsErr(res) == res.kind # "Ok"

----------------------------------------------------------------------------
\* account.rs: LedgerEntry, Account

LedgerEntry(amount, state) == [amount |-> amount, state |-> state]

\* Account::new
new(id) ==
    [ledger |-> << >>, id |-> id, available |-> 0, held |-> 0, is_locked |-> FALSE]

\* total as a bug would have it: the held funds left out
total_without_held(acc) == acc.available

\* Account::total
total(acc) == acc.available + acc.held

\* Account::summary
summary(acc) ==
    [id |-> acc.id, available |-> acc.available, held |-> acc.held,
     total |-> total(acc), is_locked |-> acc.is_locked]

\* HashMap::contains_key on the ledger
contains_key(ledger, tx_id) == tx_id \in DOMAIN ledger

\* HashMap::insert on the ledger (replaces an existing entry)
insert(ledger, tx_id, entry) ==
    [t \in (DOMAIN ledger) \cup {tx_id} |-> IF t = tx_id THEN entry ELSE ledger[t]]

\* require_unique_transaction as a bug would have it: the ledger not consulted
require_unique_transaction_unchecked(acc, tx_id) == Ok

\* Account::require_unique_transaction
require_unique_transaction(acc, tx_id) ==
    IF contains_key(acc.ledger, tx_id)
    THEN InvalidOperation("twice")
    ELSE Ok

\* require_unlocked as a bug would have it: the lock flag not consulted
require_unlocked_unchecked(acc) == Ok

\* Account::require_unlocked
require_unlocked(acc) ==
    IF acc.is_locked
    THEN InvalidOperation("locked")
    ELSE Ok

\* Account::get_tx_record
get_tx_record(acc, tx_id) ==
    IF contains_key(acc.ledger, tx_id)
    THEN Ok
    ELSE InvalidArgument("unknown")

\* assignment through the &mut LedgerEntry that get_tx_record returns
set_state(acc, tx_id, state) ==
    [acc EXCEPT !.ledger[tx_id].state = state]

\* withdraw as a bug would have it: available debited before the funds check
withdraw_debit_first(acc, tx_id, amount) ==
    IF IsErr(require_unique_transaction(acc, tx_id))
    THEN [acc |-> acc, res |-> require_unique_transaction(acc, tx_id)]
    ELSE IF IsErr(require_unlocked(acc))
    THEN [acc |-> acc, res |-> require_unlocked(acc)]
    ELSE IF amount < 0
    THEN [acc |-> acc, res |-> InvalidArgument("negative")]
    ELSE IF amount > acc.available
    THEN [acc |-> [acc EXCEPT !.available = acc.available - amount],
          res |-> InvalidArgument("greater")]
    ELSE [acc |-> [acc EXCEPT
                     !.ledger = insert(acc.ledger, tx_id, LedgerEntry(-amount, "Normal")),
                     !.available = acc.available - amount],
          res |-> Ok]

\* withdraw as a bug would have it: the amount compared against the total
withdraw_against_total(acc, tx_id, amount) ==
    IF IsErr(require_unique_transaction(acc, tx_id))
    THEN [acc |-> acc, res |-> require_unique_transaction(acc, tx_id)]
    ELSE IF IsErr(require_unlocked(acc))
    THEN [acc |-> acc, res |-> require_unlocked(acc)]
    ELSE IF amount < 0
    THEN [acc |-> acc, res |-> InvalidArgument("negative")]
    ELSE IF amount > total(acc)
    THEN [acc |-> acc, res |-> InvalidArgument("greater")]
    ELSE [acc |-> [acc EXCEPT
                     !.ledger = insert(acc.ledger, tx_id, LedgerEntry(-amount, "Normal")),
                     !.available = acc.available - amount],
          res |-> Ok]

\* withdraw as a bug would have it: the entry recorded with the amount's own
\* sign
withdraw_unsigned(acc, tx_id, amount) ==
    IF IsErr(require_unique_transaction(acc, tx_id))
    THEN [acc |-> acc, res |-> require_unique_transaction(acc, tx_id)]
    ELSE IF IsErr(require_unlocked(acc))
    THEN [acc |-> acc, res |-> require_unlocked(acc)]
    ELSE IF amount < 0
    THEN [acc |-> acc, res |-> InvalidArgument("negative")]
    ELSE IF amount > acc.available
    THEN [acc |-> acc, res |-> InvalidArgument("greater")]
    ELSE [acc |-> [acc EXCEPT
                     !.ledger = insert(acc.ledger, tx_id, LedgerEntry(amount, "Normal")),
                     !.available = acc.available - amount],
          res |-> Ok]

\* withdraw as a bug would have it: the lock checked before the ledger
withdraw_lock_first(acc, tx_id, amount) ==
    IF IsErr(require_unlocked(acc))
    THEN [acc |-> acc, res |-> require_unlocked(acc)]
    ELSE IF IsErr(require_unique_transaction(acc, tx_id))
    THEN [acc |-> acc, res |-> require_unique_transaction(acc, tx_id)]
    ELSE IF amount < 0
    THEN [acc |-> acc, res |-> InvalidArgument("negative")]
    ELSE IF amount > acc.available
    THEN [acc |-> acc, res |-> InvalidArgument("greater")]
    ELSE [acc |-> [acc EXCEPT
                     !.ledger = insert(acc.ledger, tx_id, LedgerEntry(-amount, "Normal")),
                     !.available = acc.available - amount],
          res |-> Ok]

\* withdraw as a bug would have it: a withdrawal refused for insufficient
\* funds still entered in the ledger
withdraw_records_rejected(acc, tx_id, amount) ==
    IF IsErr(require_unique_transaction(acc, tx_id))
    THEN [acc |-> acc, res |-> require_unique_transaction(acc, tx_id)]
    ELSE IF IsErr(require_unlocked(acc))
    THEN [acc |-> acc, res |-> require_unlocked(acc)]
    ELSE IF amount < 0
    THEN [acc |-> acc, res |-> InvalidArgument("negative")]
    ELSE IF amount > acc.available
    THEN [acc |-> [acc EXCEPT
                     !.ledger = insert(acc.ledger, tx_id, LedgerEntry(0, "Normal"))],
          res |-> InvalidArgument("greater")]
    ELSE [acc |-> [acc EXCEPT
                     !.ledger = insert(acc.ledger, tx_id, LedgerEntry(-amount, "Normal")),
                     !.available = acc.available - amount],
          res |-> Ok]

\* withdraw as a bug would have it: a withdrawal of nothing always allowed
withdraw_zero_always(acc, tx_id, amount) ==
    IF IsErr(require_unique_transaction(acc, tx_id))
    THEN [acc |-> acc, res |-> require_unique_transaction(acc, tx_id)]
    ELSE IF IsErr(require_unlocked(acc))
    THEN [acc |-> acc, res |-> require_unlocked(acc)]
    ELSE IF amount < 0
    THEN [acc |-> acc, res |-> InvalidArgument("negative")]
    ELSE IF amount > 0 /\ amount > acc.available
    THEN [acc |-> acc, res |-> InvalidArgument("greater")]
    ELSE [acc |-> [acc EXCEPT
                     !.ledger = insert(acc.ledger, tx_id, LedgerEntry(-amount, "Normal")),
                     !.available = acc.available - amount],
          res |-> Ok]

\* Account::withdraw
withdraw(acc, tx_id, amount) ==
    IF IsErr(require_unique_transaction(acc, tx_id))
    THEN [acc |-> acc, res |-> require_unique_transaction(acc, tx_id)]
    ELSE IF IsErr(require_unlocked(acc))
    THEN [acc |-> acc, res |-> require_unlocked(acc)]
    ELSE IF amount < 0
    THEN [acc |-> acc, res |-> InvalidArgument("negative")]
    ELSE IF amount > acc.available
    THEN [acc |-> acc, res |-> InvalidArgument("greater")]
    ELSE [acc |-> [acc EXCEPT
                     !.ledger = insert(acc.ledger, tx_id, LedgerEntry(-amount, "Normal")),
                     !.available = acc.available - amount],
          res |-> Ok]

\* deposit as a bug would have it: an amount of zero refused
deposit_rejects_zero(acc, tx_id, amount) ==
    IF IsErr(require_unique_transaction(acc, tx_id))
    THEN [acc |-> acc, res |-> require_unique_transaction(acc, tx_id)]
    ELSE IF IsErr(require_unlocked(acc))
    THEN [acc |-> acc, res |-> require_unlocked(acc)]
    ELSE IF amount <= 0
    THEN [acc |-> acc, res |-> InvalidArgument("negative")]
    ELSE [acc |-> [acc EXCEPT
                     !.ledger = insert(acc.ledger, tx_id, LedgerEntry(amount, "Normal")),
                     !.available = acc.available + amount],
          res |-> Ok]

\* deposit as a bug would have it: the sign of the amount not checked
deposit_accepts_negative(acc, tx_id, amount) ==
    IF IsErr(require_unique_transaction(acc, tx_id))
    THEN [acc |-> acc, res |-> require_unique_transaction(acc, tx_id)]
    ELSE IF IsErr(require_unlocked(acc))
    THEN [acc |-> acc, res |-> require_unlocked(acc)]
    ELSE [acc |-> [acc EXCEPT
                     !.ledger = insert(acc.ledger, tx_id, LedgerEntry(amount, "Normal")),
                     !.available = acc.available + amount],
          res |-> Ok]

\* Account::deposit
deposit(acc, tx_id, amount) ==
    IF IsErr(require_unique_transaction(acc, tx_id))
    THEN [acc |-> acc, res |-> require_unique_transaction(acc, tx_id)]
    ELSE IF IsErr(require_unlocked(acc))
    THEN [acc |-> acc, res |-> require_unlocked(acc)]
    ELSE IF amount < 0
    THEN [acc |-> acc, res |-> InvalidArgument("negative")]
    ELSE [acc |-> [acc EXCEPT
                     !.ledger = insert(acc.ledger, tx_id, LedgerEntry(amount, "Normal")),
                     !.available = acc.available + amount],
          res |-> Ok]

\* dispute as a bug would have it: the lock not checked
dispute_on_locked(acc, tx_id) ==
    IF IsErr(get_tx_record(acc, tx_id))
    THEN [acc |-> acc, res |-> Ok]
    ELSE IF acc.ledger[tx_id].state # "Normal"
    THEN [acc |-> acc, res |-> Ok]
    ELSE [acc |-> [set_state(acc, tx_id, "Disputed") EXCEPT
                     !.available = acc.available - acc.ledger[tx_id].amount,
                     !.held = acc.held + acc.ledger[tx_id].amount],
          res |-> Ok]

\* dispute as a bug would have it: a withdrawal's amount moved as if it were
\* a deposit's
dispute_unsigned(acc, tx_id) ==
    IF IsErr(require_unlocked(acc))
    THEN [acc |-> acc, res |-> require_unlocked(acc)]
    ELSE IF IsErr(get_tx_record(acc, tx_id))
    THEN [acc |-> acc, res |-> Ok]
    ELSE IF acc.ledger[tx_id].state # "Normal"
    THEN [acc |-> acc, res |-> Ok]
    ELSE LET a == acc.ledger[tx_id].amount
             m == IF a < 0 THEN -a ELSE a
         IN  [acc |-> [set_state(acc, tx_id, "Disputed") EXCEPT
                         !.available = acc.available - m,
                         !.held = acc.held + m],
              res |-> Ok]

\* dispute as a bug would have it: an entry already in dispute disputed again
dispute_repeated(acc, tx_id) ==
    IF IsErr(require_unlocked(acc))
    THEN [acc |-> acc, res |-> require_unlocked(acc)]
    ELSE IF IsErr(get_tx_record(acc, tx_id))
    THEN [acc |-> acc, res |-> Ok]
    ELSE IF acc.ledger[tx_id].state = "ChargedBack"
    THEN [acc |-> acc, res |-> Ok]
    ELSE [acc |-> [set_state(acc, tx_id, "Disputed") EXCEPT
                     !.available = acc.available - acc.ledger[tx_id].amount,
                     !.held = acc.held + acc.ledger[tx_id].amount],
          res |-> Ok]

\* dispute as a bug would have it: a dispute of an unknown transaction id
\* kept in the ledger
dispute_remembers_unknown(acc, tx_id) ==
    IF IsErr(require_unlocked(acc))
    THEN [acc |-> acc, res |-> require_unlocked(acc)]
    ELSE IF IsErr(get_tx_record(acc, tx_id))
    THEN [acc |-> [acc EXCEPT
                     !.ledger = insert(acc.ledger, tx_id, LedgerEntry(0, "Disputed"))],
          res |-> Ok]
    ELSE IF acc.ledger[tx_id].state # "Normal"
    THEN [acc |-> acc, res |-> Ok]
    ELSE [acc |-> [set_state(acc, tx_id, "Disputed") EXCEPT
                     !.available = acc.available - acc.ledger[tx_id].amount,
                     !.held = acc.held + acc.ledger[tx_id].amount],
          res |-> Ok]

\* dispute as a bug would have it: a dispute that would overdraw available
\* refused
dispute_refuses_overdraft(acc, tx_id) ==
    IF IsErr(require_unlocked(acc))
    THEN [acc |-> acc, res |-> require_unlocked(acc)]
    ELSE IF IsErr(get_tx_record(acc, tx_id))
    THEN [acc |-> acc, res |-> Ok]
    ELSE IF acc.ledger[tx_id].state # "Normal"
    THEN [acc |-> acc, res |-> Ok]
    ELSE IF acc.ledger[tx_id].amount > acc.available
    THEN [acc |-> acc, res |-> InvalidArgument("greater")]
    ELSE [acc |-> [set_state(acc, tx_id, "Disputed") EXCEPT
                     !.available = acc.available - acc.ledger[tx_id].amount,
                     !.held = acc.held + acc.ledger[tx_id].amount],
          res |-> Ok]

\* dispute as a bug would have it: the amount added to held and left in
\* available
dispute_keeps_available(acc, tx_id) ==
    IF IsErr(require_unlocked(acc))
    THEN [acc |-> acc, res |-> require_unlocked(acc)]
    ELSE IF IsErr(get_tx_record(acc, tx_id))
    THEN [acc |-> acc, res |-> Ok]
    ELSE IF acc.ledger[tx_id].state # "Normal"
    THEN [acc |-> acc, res |-> Ok]
    ELSE [acc |-> [set_state(acc, tx_id, "Disputed") EXCEPT
                     !.held = acc.held + acc.ledger[tx_id].amount],
          res |-> Ok]

\* Account::dispute
dispute(acc, tx_id) ==
    IF IsErr(require_unlocked(acc))
    THEN [acc |-> acc, res |-> require_unlocked(acc)]
    ELSE IF IsErr(get_tx_record(acc, tx_id))
    THEN [acc |-> acc, res |-> Ok]
    ELSE IF acc.ledger[tx_id].state # "Normal"
    THEN [acc |-> acc, res |-> Ok]
    ELSE [acc |-> [set_state(acc, tx_id, "Disputed") EXCEPT
                     !.available = acc.available - acc.ledger[tx_id].amount,
                     !.held = acc.held + acc.ledger[tx_id].amount],
          res |-> Ok]

\* resolve as a bug would have it: the held funds not released
resolve_keeps_held(acc, tx_id) ==
    IF IsErr(require_unlocked(acc))
    THEN [acc |-> acc, res |-> require_unlocked(acc)]
    ELSE IF IsErr(get_tx_record(acc, tx_id))
    THEN [acc |-> acc, res |-> Ok]
    ELSE IF acc.ledger[tx_id].state # "Disputed"
    THEN [acc |-> acc, res |-> Ok]
    ELSE [acc |-> [set_state(acc, tx_id, "Normal") EXCEPT
                     !.available = acc.available + acc.ledger[tx_id].amount],
          res |-> Ok]

\* resolve as a bug would have it: an unknown transaction id reported
resolve_unknown_fails(acc, tx_id) ==
    IF IsErr(require_unlocked(acc))
    THEN [acc |-> acc, res |-> require_unlocked(acc)]
    ELSE IF IsErr(get_tx_record(acc, tx_id))
    THEN [acc |-> acc, res |-> get_tx_record(acc, tx_id)]
    ELSE IF acc.ledger[tx_id].state # "Disputed"
    THEN [acc |-> acc, res |-> Ok]
    ELSE [acc |-> [set_state(acc, tx_id, "Normal") EXCEPT
                     !.available = acc.available + acc.ledger[tx_id].amount,
                     !.held = acc.held - acc.ledger[tx_id].amount],
          res |-> Ok]

\* resolve as a bug would have it: the entry's state not checked
resolve_any_state(acc, tx_id) ==
    IF IsErr(require_unlocked(acc))
    THEN [acc |-> acc, res |-> require_unlocked(acc)]
    ELSE IF IsErr(get_tx_record(acc, tx_id))
    THEN [acc |-> acc, res |-> Ok]
    ELSE [acc |-> [set_state(acc, tx_id, "Normal") EXCEPT
                     !.available = acc.available + acc.ledger[tx_id].amount,
                     !.held = acc.held - acc.ledger[tx_id].amount],
          res |-> Ok]

\* Account::resolve
resolve(acc, tx_id) ==
    IF IsErr(require_unlocked(acc))
    THEN [acc |-> acc, res |-> require_unlocked(acc)]
    ELSE IF IsErr(get_tx_record(acc, tx_id))
    THEN [acc |-> acc, res |-> Ok]
    ELSE IF acc.ledger[tx_id].state # "Disputed"
    THEN [acc |-> acc, res |-> Ok]
    ELSE [acc |-> [set_state(acc, tx_id, "Normal") EXCEPT
                     !.available = acc.available + acc.ledger[tx_id].amount,
                     !.held = acc.held - acc.ledger[tx_id].amount],
          res |-> Ok]

\* chargeback as a bug would have it: the amount handed back to available
chargeback_refunds(acc, tx_id) ==
    IF IsErr(require_unlocked(acc))
    THEN [acc |-> acc, res |-> require_unlocked(acc)]
    ELSE IF IsErr(get_tx_record(acc, tx_id))
    THEN [acc |-> acc, res |-> Ok]
    ELSE IF acc.ledger[tx_id].state # "Disputed"
    THEN [acc |-> acc, res |-> Ok]
    ELSE [acc |-> [set_state(acc, tx_id, "ChargedBack") EXCEPT
                     !.available = acc.available + acc.ledger[tx_id].amount,
                     !.held = acc.held - acc.ledger[tx_id].amount,
                     !.is_locked = TRUE],
          res |-> Ok]

\* chargeback as a bug would have it: the entry's state not checked
chargeback_any_state(acc, tx_id) ==
    IF IsErr(require_unlocked(acc))
    THEN [acc |-> acc, res |-> require_unlocked(acc)]
    ELSE IF IsErr(get_tx_record(acc, tx_id))
    THEN [acc |-> acc, res |-> Ok]
    ELSE [acc |-> [set_state(acc, tx_id, "ChargedBack") EXCEPT
                     !.held = acc.held - acc.ledger[tx_id].amount,
                     !.is_locked = TRUE],
          res |-> Ok]

\* chargeback as a bug would have it: the amount left in held
chargeback_keeps_held(acc, tx_id) ==
    IF IsErr(require_unlocked(acc))
    THEN [acc |-> acc, res |-> require_unlocked(acc)]
    ELSE IF IsErr(get_tx_record(acc, tx_id))
    THEN [acc |-> acc, res |-> Ok]
    ELSE IF acc.ledger[tx_id].state # "Disputed"
    THEN [acc |-> acc, res |-> Ok]
    ELSE [acc |-> [set_state(acc, tx_id, "ChargedBack") EXCEPT
                     !.is_locked = TRUE],
          res |-> Ok]

\* chargeback as a bug would have it: the account not locked
chargeback_without_lock(acc, tx_id) ==
    IF IsErr(require_unlocked(acc))
    THEN [acc |-> acc, res |-> require_unlocked(acc)]
    ELSE IF IsErr(get_tx_record(acc, tx_id))
    THEN [acc |-> acc, res |-> Ok]
    ELSE IF acc.ledger[tx_id].state # "Disputed"
    THEN [acc |-> acc, res |-> Ok]
    ELSE [acc |-> [set_state(acc, tx_id, "ChargedBack") EXCEPT
                     !.held = acc.held - acc.ledger[tx_id].amount],
          res |-> Ok]

\* Account::chargeback
chargeback(acc, tx_id) ==
    IF IsErr(require_unlocked(acc))
    THEN [acc |-> acc, res |-> require_unlocked(acc)]
    ELSE IF IsErr(get_tx_record(acc, tx_id))
    THEN [acc |-> acc, res |-> Ok]
    ELSE IF acc.ledger[tx_id].state # "Disputed"
    THEN [acc |-> acc, res |-> Ok]
    ELSE [acc |-> [set_state(acc, tx_id, "ChargedBack") EXCEPT
                     !.held = acc.held - acc.ledger[tx_id].amount,
                     !.is_locked = TRUE],
          res |-> Ok]

----------------------------------------------------------------------------
\* transaction.rs: Transaction, TransactionKind

new_deposit(tx_id, client_id, amount) ==
    [kind |-> "Deposit", client_id |-> client_id, tx_id |-> tx_id, amount |-> amount]

new_withdrawal(tx_id, client_id, amount) ==
    [kind |-> "Withdrawal", client_id |-> client_id, tx_id |-> tx_id, amount |-> amount]

\* Dispute, Resolve and Chargeback carry no amount; the field is fixed to 0
\* so that all transactions are records of one shape.
new_dispute(tx_id, client_id) ==
    [kind |-> "Dispute", client_id |-> client_id, tx_id |-> tx_id, amount |-> 0]

new_resolve(tx_id, client_id) ==
    [kind |-> "Resolve", client_id |-> client_id, tx_id |-> tx_id, amount |-> 0]

new_charge_back(tx_id, client_id) ==
    [kind |-> "Chargeback", client_id |-> client_id, tx_id |-> tx_id, amount |-> 0]

Transactions ==
    {new_deposit(t, c, a) : t \in TxIds, c \in ClientIds, a \in EngineAmounts}
    \cup {new_withdrawal(t, c, a) : t \in TxIds, c \in ClientIds, a \in EngineAmounts}
    \cup {new_dispute(t, c) : t \in TxIds, c \in ClientIds}
    \cup {new_resolve(t, c) : t \in TxIds, c \in ClientIds}
    \cup {new_charge_back(t, c) : t \in TxIds, c \in ClientIds}

----------------------------------------------------------------------------
\* engine.rs: TransactionEngine

\* or_insert_with as a bug would have it: a new Account put in place of the
\* one the map holds
or_insert_with_replacing(accs, client_id) ==
    [c \in (DOMAIN accs) \cup {client_id} |->
        IF c = client_id THEN new(client_id) ELSE accs[c]]

\* HashMap::entry(client_id).or_insert_with(|| Account::new(client_id))
or_insert_with(accs, client_id) ==
    IF client_id \in DOMAIN accs
    THEN accs
    ELSE [c \in (DOMAIN accs) \cup {client_id} |->
            IF c = client_id THEN new(client_id) ELSE accs[c]]

\* the match of TransactionEngine::execute
dispatch(acc, t) ==
    CASE t.kind = "Withdrawal" -> withdraw(acc, t.tx_id, t.amount)
      [] t.kind = "Deposit"    -> deposit(acc, t.tx_id, t.amount)
      [] t.kind = "Dispute"    -> dispute(acc, t.tx_id)
      [] t.kind = "Resolve"    -> resolve(acc, t.tx_id)
      [] t.kind = "Chargeback" -> chargeback(acc, t.tx_id)

\* sorting as a bug would have it: the summaries left in iteration order
sorted_insert_unsorted(seq, s) == seq \o <<s>>

\* insertion of one summary into a list sorted by id (sort_by is stable)
sorted_insert(seq, s) ==
    LET k == Cardinality({i \in 1..Len(seq) : seq[i].id <= s.id})
    IN  SubSeq(seq, 1, k) \o <<s>> \o SubSeq(seq, k + 1, Len(seq))

RECURSIVE sort_by(_)
\* Vec::sort_by(|a, b| a.id.cmp(&b.id))
sort_by(seq) ==
    IF seq = << >>
    THEN << >>
    ELSE sorted_insert(sort_by(SubSeq(seq, 1, Len(seq) - 1)), seq[Len(seq)])

\* the orders in which HashMap::iter may visit the accounts
iter(accs) ==
    {order \in [1..Cardinality(DOMAIN accs) -> DOMAIN accs] :
        \A i, j \in DOMAIN order : i # j => order[i] # order[j]}

\* no transaction in hand
NoRecord == [kind |-> "None"]

\* no CsvAccountReport constructed yet
NoReport == [writer |-> "None", rows |-> << >>]

\* the Account operation a transaction stands for, called on an Account
\* directly
operation(acc, t) ==
    IF t.kind = "Deposit" THEN deposit(acc, t.tx_id, t.amount)
    ELSE IF t.kind = "Withdrawal" THEN withdraw(acc, t.tx_id, t.amount)
    ELSE IF t.kind = "Dispute" THEN dispute(acc, t.tx_id)
    ELSE IF t.kind = "Resolve" THEN resolve(acc, t.tx_id)
    ELSE chargeback(acc, t.tx_id)

\* the history variable after transaction t: the Account of t's client takes
\* the operation, the other Accounts stay, and t's client id joins the ids
\* handed to execute so far
solo_next(t) ==
    [acc |-> [solo.acc EXCEPT ![t.client_id] = operation(@, t).acc],
     res |-> operation(solo.acc[t.client_id], t).res,
     seen |-> solo.seen \cup {t.client_id}]

Init ==
    /\ account = new(1)
    /\ accounts = << >>
    /\ last = [call |-> "new"]
    /\ solo = [acc |-> [c \in ClientIds |-> new(c)], res |-> Ok, seen |-> {}]
    /\ steps = 0
    /\ run = [pc |-> "open", record |-> NoRecord, reads |-> 0, executed |-> 0,
              errors |-> 0, failed_in |-> "none", res |-> Ok,
              report |-> NoReport, pending |-> << >>]
    /\ csv_report = NoReport

\* execute as a bug would have it: the account looked up under the
\* transaction id
execute_keyed_by_tx(t) ==
    LET accs == or_insert_with(accounts, t.tx_id)
        out  == dispatch(accs[t.tx_id], t)
    IN  /\ steps < MaxSteps
        /\ steps' = steps + 1
        /\ accounts' = [accs EXCEPT ![t.tx_id] = out.acc]
        /\ last' = [call |-> "execute", t |-> t, known |-> t.client_id \in DOMAIN accounts,
                    engine |-> accounts, before |-> accs[t.tx_id], res |-> out.res]
        /\ solo' = solo_next(t)
        /\ UNCHANGED <<account, csv_report>>

\* execute as a bug would have it: the account kept only when the
\* transaction succeeds
execute_insert_on_success(t) ==
    LET accs == or_insert_with(accounts, t.client_id)
        out  == dispatch(accs[t.client_id], t)
    IN  /\ steps < MaxSteps
        /\ steps' = steps + 1
        /\ accounts' = IF IsErr(out.res)
                       THEN accounts
                       ELSE [accs EXCEPT ![t.client_id] = out.acc]
        /\ last' = [call |-> "execute", t |-> t, known |-> t.client_id \in DOMAIN accounts,
                    engine |-> accounts, before |-> accs[t.client_id], res |-> out.res]
        /\ solo' = solo_next(t)
        /\ UNCHANGED <<account, csv_report>>

\* TransactionEngine::execute
execute(t) ==
    LET accs == or_insert_with(accounts, t.client_id)
        out  == dispatch(accs[t.client_id], t)
    IN  /\ steps < MaxSteps
        /\ steps' = steps + 1
        /\ accounts' = [accs EXCEPT ![t.client_id] = out.acc]
        /\ last' = [call |-> "execute", t |-> t, known |-> t.client_id \in DOMAIN accounts,
                    engine |-> accounts, before |-> accs[t.client_id], res |-> out.res]
        /\ solo' = solo_next(t)
        /\ UNCHANGED <<account, csv_report>>

\* TransactionEngine::account_summary
account_summary ==
    /\ \E order \in iter(accounts) :
          last' = [call |-> "account_summary", engine |-> accounts,
                   out |-> sort_by([i \in DOMAIN order |-> summary(accounts[order[i]])])]
    /\ UNCHANGED <<account, accounts, solo, steps, csv_report>>

Next ==
    \/ \E t \in Transactions : execute(t) /\ UNCHANGED run
    \/ account_summary /\ UNCHANGED run

Spec == Init /\ [][Next]_vars

----------------------------------------------------------------------------
\* result.rs, csv_transaction_source.rs, csv_account_report.rs, main.rs:
\* the end-to-end run

IoError(m) == [kind |-> "IoError", msg |-> m]

\* a record of the input whose type column names no transaction kind
Unsupported == [kind |-> "Unsupported"]

\* the records an input file may hold
SourceRecords == Transactions \cup {Unsupported}

\* CsvTransactionSource::read on a record that the reader delivered
read(rec) ==
    IF rec.kind \in {"Deposit", "Withdrawal"}
    THEN IF rec.amount < 0
         THEN [res |-> InvalidArgument("amount"), record |-> NoRecord]
         ELSE [res |-> Ok, record |-> rec]
    ELSE IF rec.kind \in {"Dispute", "Resolve", "Chargeback"}
    THEN [res |-> Ok, record |-> rec]
    ELSE [res |-> InvalidArgument("type"), record |-> NoRecord]

\* CsvAccountReport::from_writer; io_ok tells whether writing the header
\* record succeeds
from_writer(io_ok) ==
    IF io_ok
    THEN [report |-> [writer |-> "Some", rows |-> <<[row |-> "header"]>>], res |-> Ok]
    ELSE [report |-> NoReport, res |-> IoError("write")]

\* CsvAccountReport::write_account
write_account(report, s, io_ok) ==
    IF report.writer = "None"
    THEN [report |-> report, res |-> InvalidOperation("flushed")]
    ELSE IF ~io_ok
    THEN [report |-> report, res |-> IoError("write")]
    ELSE [report |-> [report EXCEPT !.rows = Append(@, [row |-> "account", account |-> s])],
          res |-> Ok]

\* flush as a bug would have it: the writer left in place
flush_keeps_writer(report, io_ok) ==
    IF report.writer = "None"
    THEN [report |-> report, res |-> InvalidOperation("flushed"), out |-> << >>]
    ELSE IF ~io_ok
    THEN [report |-> report, res |-> IoError("write"), out |-> << >>]
    ELSE [report |-> report, res |-> Ok, out |-> report.rows]

\* CsvAccountReport::flush; out is the destination handed back
flush(report, io_ok) ==
    IF report.writer = "None"
    THEN [report |-> report, res |-> InvalidOperation("flushed"), out |-> << >>]
    ELSE IF ~io_ok
    THEN [report |-> [report EXCEPT !.writer = "None"], res |-> IoError("write"), out |-> << >>]
    ELSE [report |-> [report EXCEPT !.writer = "None"], res |-> Ok, out |-> report.rows]

\* run() returns Err(err) out of the step named by `where`
fail(where, err) ==
    [run EXCEPT !.pc = "failed", !.failed_in = where, !.res = err,
                !.errors = @ + 1, !.record = NoRecord]

\* File::open(csv_source_path).await.map_err(..)?
run_open ==
    /\ run.pc = "open"
    /\ \E io_ok \in BOOLEAN :
          run' = IF io_ok THEN [run EXCEPT !.pc = "source"]
                 ELSE fail("open", IoError("open"))
    /\ UNCHANGED <<account, accounts, last, solo, steps, csv_report>>

\* CsvTransactionSource::from_reader(csv_source_file).await?; reading the
\* header line is unwrapped, so a failure there panics
run_from_reader ==
    /\ run.pc = "source"
    /\ \E outcome \in {"ok", "missing_column", "panic"} :
          run' = CASE outcome = "ok" -> [run EXCEPT !.pc = "read"]
                   [] outcome = "missing_column" ->
                        fail("from_reader", InvalidArgument("column"))
                   [] outcome = "panic" -> [run EXCEPT !.pc = "panicked"]
    /\ UNCHANGED <<account, accounts, last, solo, steps, csv_report>>

\* csv_source.read().await? of the loop in run(): the reader fails, is at the
\* end of the input, or delivers the next record
run_read ==
    /\ run.pc = "read"
    /\ \/ run' = fail("read", IoError("read"))
       \/ run' = [run EXCEPT !.pc = "report", !.reads = @ + 1]
       \/ /\ steps < MaxSteps
          /\ \E rec \in SourceRecords :
                run' = IF IsErr(read(rec).res)
                       THEN [fail("read", read(rec).res) EXCEPT !.reads = @ + 1]
                       ELSE [run EXCEPT !.pc = "execute", !.reads = @ + 1,
                                        !.record = read(rec).record]
    /\ UNCHANGED <<account, accounts, last, solo, steps, csv_report>>

\* the loop body as a bug would have it: a failing transaction skipped and
\* the run carried on
run_execute_lenient ==
    /\ run.pc = "execute"
    /\ execute(run.record)
    /\ run' = IF IsErr(last'.res)
              THEN [run EXCEPT !.pc = "read", !.errors = @ + 1,
                               !.executed = @ + 1, !.record = NoRecord]
              ELSE [run EXCEPT !.pc = "read", !.executed = @ + 1,
                               !.record = NoRecord]

\* engine.execute(record)? of the loop in run()
run_execute ==
    /\ run.pc = "execute"
    /\ execute(run.record)
    /\ run' = IF IsErr(last'.res)
              THEN [fail("execute", last'.res) EXCEPT !.executed = @ + 1]
              ELSE [run EXCEPT !.pc = "read", !.executed = @ + 1,
                               !.record = NoRecord]

\* CsvAccountReport::from_writer(output_sink)?
run_from_writer ==
    /\ run.pc = "report"
    /\ \E io_ok \in BOOLEAN :
          run' = IF IsErr(from_writer(io_ok).res)
                 THEN fail("from_writer", from_writer(io_ok).res)
                 ELSE [run EXCEPT !.pc = "summary", !.report = from_writer(io_ok).report]
    /\ UNCHANGED <<account, accounts, last, solo, steps, csv_report>>

\* engine.account_summary() in run()
run_account_summary ==
    /\ run.pc = "summary"
    /\ account_summary
    /\ run' = [run EXCEPT !.pc = "write", !.pending = last'.out]

\* one step of .iter().try_for_each(|account| csv_report.write_account(account))?
run_write_account ==
    /\ run.pc = "write"
    /\ run.pending # << >>
    /\ \E io_ok \in BOOLEAN :
          LET out == write_account(run.report, Head(run.pending), io_ok)
          IN  run' = IF IsErr(out.res)
                     THEN fail("write_account", out.res)
                     ELSE [run EXCEPT !.report = out.report, !.pending = Tail(@)]
    /\ UNCHANGED <<account, accounts, last, solo, steps, csv_report>>

\* csv_report.flush(), whose result run() returns
run_flush ==
    /\ run.pc = "write"
    /\ run.pending = << >>
    /\ \E io_ok \in BOOLEAN :
          LET out == flush(run.report, io_ok)
          IN  run' = IF IsErr(out.res)
                     THEN [fail("flush", out.res) EXCEPT !.report = out.report]
                     ELSE [run EXCEPT !.pc = "done", !.report = out.report,
                                      !.res = [kind |-> "Ok", msg |-> "none", sink |-> out.out]]
    /\ UNCHANGED <<account, accounts, last, solo, steps, csv_report>>

NextRun ==
    \/ run_open
    \/ run_from_reader
    \/ run_read
    \/ run_execute
    \/ run_from_writer
    \/ run_account_summary
    \/ run_write_account
    \/ run_flush

SpecRun == Init /\ [][NextRun]_vars

\* run() is one future awaited to completion by the runtime of #[tokio::main]:
\* whenever it can take a step it takes one
SpecRunFair == SpecRun /\ WF_vars(NextRun)

----------------------------------------------------------------------------
\* csv_account_report.rs: one CsvAccountReport driven directly

\* the summaries handed to a report
Summaries ==
    {summary(deposit(new(c), 1, amount).acc) :
        c \in ClientIds, amount \in 0..MaxEngineAmount}

\* let mut report = CsvAccountReport::from_writer(..)
report_from_writer ==
    /\ last.call = "new"
    /\ csv_report = NoReport
    /\ \E io_ok \in BOOLEAN :
          /\ csv_report' = from_writer(io_ok).report
          /\ last' = [call |-> "from_writer", before |-> csv_report,
                      res |-> from_writer(io_ok).res, out |-> << >>,
                      flushes |-> 0, returned |-> 0]
    /\ UNCHANGED <<account, accounts, solo, steps, run>>

\* report.write_account(&s)
report_write_account(s) ==
    /\ csv_report # NoReport
    /\ steps < MaxWrites
    /\ steps' = steps + 1
    /\ \E io_ok \in BOOLEAN :
          LET out == write_account(csv_report, s, io_ok)
          IN  /\ csv_report' = out.report
              /\ last' = [call |-> "write_account", s |-> s, before |-> csv_report,
                          res |-> out.res, out |-> << >>,
                          flushes |-> last.flushes, returned |-> last.returned]
    /\ UNCHANGED <<account, accounts, solo, run>>

\* report.flush(); `flushes` counts the calls of flush and `returned` the
\* times flush handed the destination back
report_flush ==
    /\ csv_report # NoReport
    /\ steps < MaxWrites
    /\ steps' = steps + 1
    /\ \E io_ok \in BOOLEAN :
          LET out == flush(csv_report, io_ok)
          IN  /\ csv_report' = out.report
              /\ last' = [call |-> "flush", before |-> csv_report,
                          res |-> out.res, out |-> out.out,
                          flushes |-> last.flushes + 1,
                          returned |-> IF out.res = Ok THEN last.returned + 1
                                       ELSE last.returned]
    /\ UNCHANGED <<account, accounts, solo, run>>

NextReport ==
    \/ report_from_writer
    \/ \E s \in Summaries : report_write_account(s)
    \/ report_flush

SpecReport == Init /\ [][NextReport]_vars

----------------------------------------------------------------------------
\* One Account driven directly through its five public operations.

\* a call of one Account operation: the account takes the operation's effect
\* and `last` keeps the call, the account before it and the result
call(name, tx_id, amount, out) ==
    /\ steps < MaxCalls
    /\ steps' = steps + 1
    /\ account' = out.acc
    /\ last' = [call |-> name, tx_id |-> tx_id, amount |-> amount,
                before |-> account, res |-> out.res]
    /\ UNCHANGED <<accounts, solo, run, csv_report>>

call_withdraw(tx_id, amount) ==
    call("withdraw", tx_id, amount, withdraw(account, tx_id, amount))

call_deposit(tx_id, amount) ==
    call("deposit", tx_id, amount, deposit(account, tx_id, amount))

call_dispute(tx_id) ==
    call("dispute", tx_id, 0, dispute(account, tx_id))

call_resolve(tx_id) ==
    call("resolve", tx_id, 0, resolve(account, tx_id))

call_chargeback(tx_id) ==
    call("chargeback", tx_id, 0, chargeback(account, tx_id))

NextAccount ==
    \/ \E tx_id \in TxIds, amount \in Amounts : call_withdraw(tx_id, amount)
    \/ \E tx_id \in TxIds, amount \in Amounts : call_deposit(tx_id, amount)
    \/ \E tx_id \in TxIds : call_dispute(tx_id)
    \/ \E tx_id \in TxIds : call_resolve(tx_id)
    \/ \E tx_id \in TxIds : call_chargeback(tx_id)

SpecAccount == Init /\ [][NextAccount]_vars

\* the same five operations over one more transaction id and fewer calls
NextAccountWide ==
    \/ \E tx_id \in WideTxIds, amount \in Amounts :
          steps < MaxWideCalls /\ call_withdraw(tx_id, amount)
    \/ \E tx_id \in WideTxIds, amount \in Amounts :
          steps < MaxWideCalls /\ call_deposit(tx_id, amount)
    \/ \E tx_id \in WideTxIds : steps < MaxWideCalls /\ call_dispute(tx_id)
    \/ \E tx_id \in WideTxIds : steps < MaxWideCalls /\ call_resolve(tx_id)
    \/ \E tx_id \in WideTxIds : steps < MaxWideCalls /\ call_chargeback(tx_id)

SpecAccountWide == Init /\ [][NextAccountWide]_vars

----------------------------------------------------------------------------
\* Properties of a single Account (checked under SpecAccount)

Operations == {"withdraw", "deposit", "dispute", "resolve", "chargeback"}

\* the last step was a call of an Account operation
Called == last.call \in Operations

\* the last step was a call of operation `name`
CalledOp(name) == last.call = name

\* the last call addressed a transaction id the ledger already held
KnownBefore == last.tx_id \in DOMAIN last.before.ledger

\* the state of the addressed entry before the last call
StateBefore == last.before.ledger[last.tx_id].state

\* the signed amount of the addressed entry before the last call
AmountBefore == last.before.ledger[last.tx_id].amount

\* C1: once is_locked is true it stays true, and no later operation changes
\* available, held or any ledger entry: a call on a locked account leaves the
\* whole account as it was.
C1_LockPermanence ==
    (Called /\ last.before.is_locked) =>
        /\ account.is_locked
        /\ account.available = last.before.available
        /\ account.held = last.before.held
        /\ account.ledger = last.before.ledger

\* C1 witness: a deposit with a fresh tx id and a valid amount, which only
\* the lock stops, was called on a locked account.
C1_Witness ==
    /\ CalledOp("deposit")
    /\ last.before.is_locked
    /\ ~KnownBefore
    /\ last.amount > 0

\* C2 as stated: every operation on a locked account fails with
\* InvalidOperation reporting the locked account.
C2_AlwaysReportsLock ==
    (Called /\ last.before.is_locked) => last.res = InvalidOperation("locked")

\* C2 amended: every operation on a locked account fails with
\* InvalidOperation; the error reports the locked account, except that a
\* deposit or withdraw whose tx id is already in the ledger reports the
\* duplicate transaction.
C2_LockedFails ==
    (Called /\ last.before.is_locked) =>
        IF last.call \in {"deposit", "withdraw"} /\ KnownBefore
        THEN last.res = InvalidOperation("twice")
        ELSE last.res = InvalidOperation("locked")

\* C2 witness: a dispute of an entry still in dispute was called on a locked
\* account.
C2_Witness ==
    /\ CalledOp("dispute")
    /\ last.before.is_locked
    /\ KnownBefore
    /\ StateBefore = "Disputed"

\* C4: a deposit or withdraw whose tx id is already in the ledger, whatever
\* the entry's sign and state, fails with InvalidOperation and leaves the
\* account unchanged; a successful deposit or withdraw used a tx id the
\* ledger did not hold and the ledger holds it from then on, so no two
\* successful calls share a tx id.
C4_TxIdUnique ==
    /\ (last.call \in {"deposit", "withdraw"} /\ KnownBefore) =>
            /\ last.res.kind = "InvalidOperation"
            /\ account = last.before
    /\ (last.call \in {"deposit", "withdraw"} /\ last.res = Ok) =>
            /\ ~KnownBefore
            /\ last.tx_id \in DOMAIN account.ledger
    /\ Called => DOMAIN last.before.ledger \subseteq DOMAIN account.ledger

\* C4 witness: on an unlocked account a withdraw with an affordable amount
\* reused the tx id of an earlier deposit.
C4_Witness ==
    /\ CalledOp("withdraw")
    /\ ~last.before.is_locked
    /\ KnownBefore
    /\ AmountBefore > 0
    /\ last.amount >= 0
    /\ last.amount <= last.before.available

\* C5: whenever an operation returns an error, available, held, is_locked and
\* the ledger are what they were before the call.
C5_NoPartialMutation ==
    (Called /\ IsErr(last.res)) =>
        /\ account.available = last.before.available
        /\ account.held = last.before.held
        /\ account.is_locked = last.before.is_locked
        /\ account.ledger = last.before.ledger

\* C5 witness: a withdraw failed for insufficient funds on an account that
\* had funds to take from.
C5_Witness ==
    /\ CalledOp("withdraw")
    /\ last.res = InvalidArgument("greater")
    /\ last.before.available > 0

\* C6: on an unlocked account with a fresh tx id, withdraw fails with
\* InvalidArgument whenever amount > available (held funds do not count) and
\* leaves the balances unchanged; with 0 <= amount <= available it succeeds.
C6_WithdrawLimit ==
    (CalledOp("withdraw") /\ ~last.before.is_locked /\ ~KnownBefore) =>
        /\ last.amount > last.before.available =>
                /\ last.res.kind = "InvalidArgument"
                /\ account.available = last.before.available
                /\ account.held = last.before.held
        /\ (last.amount >= 0 /\ last.amount <= last.before.available) =>
                last.res = Ok

\* C6 witness: a withdraw that the total would have covered, but available
\* did not, was refused.
C6_Witness ==
    /\ CalledOp("withdraw")
    /\ ~last.before.is_locked
    /\ ~KnownBefore
    /\ last.amount > last.before.available
    /\ last.amount <= total(last.before)
    /\ IsErr(last.res)

\* C7: dispute of a Normal entry on an unlocked account sets the entry to
\* Disputed, subtracts its signed amount from available, adds it to held and
\* changes nothing else.
C7_DisputeEffect ==
    (CalledOp("dispute") /\ ~last.before.is_locked /\ KnownBefore
        /\ StateBefore = "Normal") =>
        /\ last.res = Ok
        /\ account = [last.before EXCEPT
                        !.ledger[last.tx_id].state = "Disputed",
                        !.available = @ - AmountBefore,
                        !.held = @ + AmountBefore]

\* C7 witness: a withdrawal was disputed; available rose and held went below
\* zero.
C7_Witness ==
    /\ CalledOp("dispute")
    /\ ~last.before.is_locked
    /\ KnownBefore
    /\ StateBefore = "Normal"
    /\ AmountBefore < 0
    /\ account.available > last.before.available
    /\ account.held < 0

\* C8: after dispute has acted on a Normal entry, an immediate resolve of the
\* same tx id succeeds and gives back the account as it was before the
\* dispute; and resolve of a Disputed entry adds the signed amount to
\* available, subtracts it from held and sets the entry to Normal.
C8_DisputeResolveRoundTrip ==
    /\ (CalledOp("dispute") /\ ~last.before.is_locked /\ KnownBefore
            /\ StateBefore = "Normal") =>
            resolve(account, last.tx_id) = [acc |-> last.before, res |-> Ok]
    /\ (CalledOp("resolve") /\ ~last.before.is_locked /\ KnownBefore
            /\ StateBefore = "Disputed") =>
            /\ last.res = Ok
            /\ account = [last.before EXCEPT
                            !.ledger[last.tx_id].state = "Normal",
                            !.available = @ + AmountBefore,
                            !.held = @ - AmountBefore]

\* C8 witness: a disputed withdrawal was resolved while another entry was
\* still in dispute, well into a run.
C8_Witness ==
    /\ CalledOp("resolve")
    /\ ~last.before.is_locked
    /\ KnownBefore
    /\ StateBefore = "Disputed"
    /\ AmountBefore < 0
    /\ account.ledger[last.tx_id].state = "Normal"
    /\ \E t \in DOMAIN account.ledger : account.ledger[t].state = "Disputed"

\* C9: after a successful dispute of an entry, a second dispute of the same
\* entry returns success and changes nothing; and a dispute of an entry that
\* is already Disputed is such a no-op.
C9_DisputeIdempotent ==
    /\ (CalledOp("dispute") /\ last.res = Ok /\ KnownBefore) =>
            dispute(account, last.tx_id) = [acc |-> account, res |-> Ok]
    /\ (CalledOp("dispute") /\ ~last.before.is_locked /\ KnownBefore
            /\ StateBefore = "Disputed") =>
            /\ last.res = Ok
            /\ account = last.before

\* C9 witness: dispute was called on an entry with a non-zero amount that was
\* already Disputed.
C9_Witness ==
    /\ CalledOp("dispute")
    /\ ~last.before.is_locked
    /\ KnownBefore
    /\ StateBefore = "Disputed"
    /\ AmountBefore # 0

\* C10: chargeback of a Disputed entry on an unlocked account sets the entry
\* to ChargedBack, subtracts its signed amount from held, locks the account
\* and leaves available unchanged; when the entry is the account's only one
\* (deposit, dispute, chargeback from a fresh account) everything ends at 0.
C10_ChargebackEffect ==
    (CalledOp("chargeback") /\ ~last.before.is_locked /\ KnownBefore
        /\ StateBefore = "Disputed") =>
        /\ last.res = Ok
        /\ account = [last.before EXCEPT
                        !.ledger[last.tx_id].state = "ChargedBack",
                        !.held = @ - AmountBefore,
                        !.is_locked = TRUE]
        /\ DOMAIN last.before.ledger = {last.tx_id} =>
                /\ account.available = 0
                /\ account.held = 0
                /\ total(account) = 0
                /\ account.is_locked

\* C10 witness: a disputed deposit of a positive amount, the only entry of
\* the account, was charged back.
C10_Witness ==
    /\ CalledOp("chargeback")
    /\ ~last.before.is_locked
    /\ KnownBefore
    /\ StateBefore = "Disputed"
    /\ AmountBefore > 0
    /\ DOMAIN last.before.ledger = {last.tx_id}
    /\ account.is_locked

\* C11: the only state changes a ledger entry makes are Normal -> Disputed
\* by dispute, Disputed -> Normal by resolve and Disputed -> ChargedBack by
\* chargeback, each of the entry the call names; an entry stays in the
\* ledger, never goes Normal -> ChargedBack and never leaves ChargedBack.
C11_EntryStateMachine ==
    Called =>
        \A t \in DOMAIN last.before.ledger :
            /\ t \in DOMAIN account.ledger
            /\ LET b == last.before.ledger[t].state
                   a == account.ledger[t].state
               IN  \/ a = b
                   \/ /\ t = last.tx_id
                      /\ \/ b = "Normal" /\ a = "Disputed" /\ CalledOp("dispute")
                         \/ b = "Disputed" /\ a = "Normal" /\ CalledOp("resolve")
                         \/ b = "Disputed" /\ a = "ChargedBack" /\ CalledOp("chargeback")

\* C11 witness: chargeback was called on a Normal entry while another entry
\* was in dispute.
C11_Witness ==
    /\ CalledOp("chargeback")
    /\ ~last.before.is_locked
    /\ KnownBefore
    /\ StateBefore = "Normal"
    /\ \E t \in DOMAIN last.before.ledger : last.before.ledger[t].state = "Disputed"

\* C12 as stated: on any account, a dispute, resolve or chargeback naming a
\* tx id that is not in the ledger returns success and changes nothing.
C12_UnknownTxAlwaysSucceeds ==
    (last.call \in {"dispute", "resolve", "chargeback"} /\ ~KnownBefore) =>
        /\ last.res = Ok
        /\ account = last.before

\* C12 amended: on an unlocked account, a dispute, resolve or chargeback
\* naming a tx id that is not in the ledger returns success and changes
\* nothing; on a locked account it changes nothing either but fails with
\* InvalidOperation reporting the locked account.
C12_UnknownTxNoOp ==
    (last.call \in {"dispute", "resolve", "chargeback"} /\ ~KnownBefore) =>
        /\ account = last.before
        /\ last.res = IF last.before.is_locked
                      THEN InvalidOperation("locked")
                      ELSE Ok

\* C12 witness: resolve named an unknown tx id on an unlocked account that
\* had another entry in dispute.
C12_Witness ==
    /\ CalledOp("resolve")
    /\ ~last.before.is_locked
    /\ ~KnownBefore
    /\ \E t \in DOMAIN last.before.ledger : last.before.ledger[t].state = "Disputed"

\* C13: on an unlocked account, resolve and chargeback of an entry that is
\* not Disputed, and dispute of an entry that is not Normal, return success
\* and leave balances, lock flag and every entry unchanged.
C13_StateMismatchNoOp ==
    (Called /\ ~last.before.is_locked /\ KnownBefore
        /\ \/ last.call \in {"resolve", "chargeback"} /\ StateBefore # "Disputed"
           \/ CalledOp("dispute") /\ StateBefore # "Normal") =>
        /\ last.res = Ok
        /\ account = last.before
        /\ ~account.is_locked

\* C13 witness: resolve was called on a Normal entry of non-zero amount.
C13_Witness ==
    /\ CalledOp("resolve")
    /\ ~last.before.is_locked
    /\ KnownBefore
    /\ StateBefore = "Normal"
    /\ AmountBefore # 0

\* C14: a deposit on an unlocked account with a fresh tx id and amount >= 0
\* succeeds, inserts a Normal entry of +amount under the tx id, adds amount
\* to available and changes nothing else.
C14_DepositEffect ==
    (CalledOp("deposit") /\ ~last.before.is_locked /\ ~KnownBefore
        /\ last.amount >= 0) =>
        /\ last.res = Ok
        /\ DOMAIN account.ledger = DOMAIN last.before.ledger \cup {last.tx_id}
        /\ account.ledger[last.tx_id] = [amount |-> last.amount, state |-> "Normal"]
        /\ \A t \in DOMAIN last.before.ledger :
                account.ledger[t] = last.before.ledger[t]
        /\ account.available = last.before.available + last.amount
        /\ account.held = last.before.held
        /\ account.is_locked = last.before.is_locked
        /\ account.id = last.before.id

\* C14 witness: a deposit of amount 0 succeeded on an account with an entry
\* in dispute.
C14_Witness ==
    /\ CalledOp("deposit")
    /\ last.res = Ok
    /\ last.amount = 0
    /\ \E t \in DOMAIN last.before.ledger : last.before.ledger[t].state = "Disputed"

\* C15: a withdraw on an unlocked account with a fresh tx id and
\* 0 <= amount <= available succeeds, inserts a Normal entry of -amount under
\* the tx id, subtracts amount from available and changes nothing else.
C15_WithdrawEffect ==
    (CalledOp("withdraw") /\ ~last.before.is_locked /\ ~KnownBefore
        /\ last.amount >= 0 /\ last.amount <= last.before.available) =>
        /\ last.res = Ok
        /\ DOMAIN account.ledger = DOMAIN last.before.ledger \cup {last.tx_id}
        /\ account.ledger[last.tx_id] = [amount |-> 0 - last.amount, state |-> "Normal"]
        /\ \A t \in DOMAIN last.before.ledger :
                account.ledger[t] = last.before.ledger[t]
        /\ account.available = last.before.available - last.amount
        /\ account.held = last.before.held
        /\ account.is_locked = last.before.is_locked
        /\ account.id = last.before.id

\* C15 witness: a withdraw of a positive amount succeeded and left funds.
C15_Witness ==
    /\ CalledOp("withdraw")
    /\ last.res = Ok
    /\ last.amount > 0
    /\ account.available > 0

\* C16: deposit and withdraw with amount < 0 on an unlocked account with a
\* fresh tx id fail with InvalidArgument, record no entry and change no
\* balance.
C16_NegativeAmount ==
    (last.call \in {"deposit", "withdraw"} /\ ~last.before.is_locked
        /\ ~KnownBefore /\ last.amount < 0) =>
        /\ last.res.kind = "InvalidArgument"
        /\ account.ledger = last.before.ledger
        /\ account.available = last.before.available
        /\ account.held = last.before.held

\* C16 witness: a deposit of a negative amount was called on an unlocked
\* account that held funds.
C16_Witness ==
    /\ CalledOp("deposit")
    /\ ~last.before.is_locked
    /\ ~KnownBefore
    /\ last.amount < 0
    /\ last.before.available > 0

----------------------------------------------------------------------------
\* Properties of the engine (checked under Spec)

\* C3: in every account the engine holds, and in every AccountSummary that
\* account_summary returns, total equals available + held.
C3_TotalIsAvailablePlusHeld ==
    /\ \A c \in DOMAIN accounts :
            total(accounts[c]) = accounts[c].available + accounts[c].held
    /\ last.call = "account_summary" =>
            \A i \in DOMAIN last.out :
                last.out[i].total = last.out[i].available + last.out[i].held

\* C3 witness: account_summary returned a summary with non-zero available
\* and non-zero held.
C3_Witness ==
    /\ last.call = "account_summary"
    /\ \E i \in DOMAIN last.out :
            /\ last.out[i].available # 0
            /\ last.out[i].held # 0

\* the last step was execute
Executed == last.call = "execute"

\* C17: execute(t) takes the account of t.client_id, a fresh one if the
\* engine holds none, calls the one Account operation t.kind names and
\* returns its result unchanged: after any sequence of transactions each
\* account the engine holds equals the Account that was called directly with
\* its client's transactions in order, and a client never named has none.
C17_EngineIsPerClientAccounts ==
    /\ \A c \in DOMAIN accounts : accounts[c] = solo.acc[c]
    /\ \A c \in ClientIds \ DOMAIN accounts : solo.acc[c] = new(c)
    /\ Executed =>
            /\ last.res = solo.res
            /\ ~last.known => last.before = new(last.t.client_id)
            /\ last.known => last.before = last.engine[last.t.client_id]

\* C17 witness: with two clients holding entries, execute returned an
\* Account operation's error.
C17_Witness ==
    /\ Executed
    /\ IsErr(last.res)
    /\ \E c, d \in DOMAIN accounts :
            /\ c # d
            /\ DOMAIN accounts[c].ledger # {}
            /\ DOMAIN accounts[d].ledger # {}

\* C18: account_summary returns one summary per account the engine holds,
\* in strictly ascending client_id order, each with that account's current
\* available, held, total and is_locked, whatever order the map is visited
\* in; the call leaves the engine's accounts as they were.
C18_SummarySorted ==
    last.call = "account_summary" =>
        /\ accounts = last.engine
        /\ Len(last.out) = Cardinality(DOMAIN accounts)
        /\ \A i, j \in DOMAIN last.out : i < j => last.out[i].id < last.out[j].id
        /\ \A i \in DOMAIN last.out :
                /\ last.out[i].id \in DOMAIN accounts
                /\ LET a == accounts[last.out[i].id]
                   IN  last.out[i] = [id |-> a.id,
                                      available |-> a.available,
                                      held |-> a.held,
                                      total |-> a.available + a.held,
                                      is_locked |-> a.is_locked]
        /\ \A c \in DOMAIN accounts : \E i \in DOMAIN last.out : last.out[i].id = c

\* C18 witness: account_summary returned the summaries of two accounts, one
\* of them with funds in dispute.
C18_Witness ==
    /\ last.call = "account_summary"
    /\ Len(last.out) >= 2
    /\ \E i \in DOMAIN last.out : last.out[i].held # 0

\* C19: execute(t) changes no account but that of t.client_id; a deposit or
\* withdraw is judged against the ledger of its own client only, so a tx id
\* another client has used is accepted; a dispute, resolve or chargeback of a
\* tx id that is not in the sender's ledger changes nothing, whoever else
\* holds that tx id.
C19_AccountsIsolated ==
    Executed =>
        /\ DOMAIN accounts = DOMAIN last.engine \cup {last.t.client_id}
        /\ \A c \in DOMAIN last.engine :
                c # last.t.client_id => accounts[c] = last.engine[c]
        /\ (last.t.kind = "Deposit" /\ last.t.amount >= 0
                /\ ~last.before.is_locked
                /\ last.t.tx_id \notin DOMAIN last.before.ledger) =>
                /\ last.res = Ok
                /\ last.t.tx_id \in DOMAIN accounts[last.t.client_id].ledger
        /\ (last.t.kind = "Withdrawal" /\ last.t.amount >= 0
                /\ last.t.amount <= last.before.available
                /\ ~last.before.is_locked
                /\ last.t.tx_id \notin DOMAIN last.before.ledger) =>
                /\ last.res = Ok
                /\ last.t.tx_id \in DOMAIN accounts[last.t.client_id].ledger
        /\ (last.t.kind \in {"Dispute", "Resolve", "Chargeback"}
                /\ last.t.tx_id \notin DOMAIN last.before.ledger) =>
                accounts[last.t.client_id] = last.before

\* C19 witness: a client sent a dispute for a tx id that only another
\* client's ledger holds, as a Normal entry of non-zero amount.
C19_Witness ==
    /\ Executed
    /\ last.t.kind = "Dispute"
    /\ last.t.tx_id \notin DOMAIN last.before.ledger
    /\ \E c \in DOMAIN accounts :
            /\ c # last.t.client_id
            /\ last.t.tx_id \in DOMAIN accounts[c].ledger
            /\ accounts[c].ledger[last.t.tx_id].state = "Normal"
            /\ accounts[c].ledger[last.t.tx_id].amount # 0

\* C19 second case reached: a deposit succeeded under a tx id that another
\* client's ledger already held.
C19_SharedTxIdReached ==
    /\ Executed
    /\ last.t.kind = "Deposit"
    /\ last.res = Ok
    /\ \E c \in DOMAIN last.engine :
            /\ c # last.t.client_id
            /\ last.t.tx_id \in DOMAIN last.engine[c].ledger

----------------------------------------------------------------------------
\* Properties of the end-to-end run (checked under SpecRun)

\* C20: the run executes each record right after reading it and before the
\* next read, and stops at the first error: once a read or an execute has
\* failed the run has returned that error, with nothing read or executed
\* after it and no report constructed, so not even the header is written;
\* a report exists only after every record was read and executed
\* successfully and the end of the input was reached.
C20_FailFast ==
    /\ run.errors >= 1 => (run.pc = "failed" /\ run.errors = 1 /\ IsErr(run.res))
    /\ run.pc = "execute" =>
            (run.record # NoRecord /\ run.reads = run.executed + 1)
    /\ run.pc = "read" =>
            (run.record = NoRecord /\ run.reads = run.executed)
    /\ (run.pc \in {"read", "report"} /\ run.executed > 0) =>
            (Executed /\ last.res = Ok)
    /\ run.executed = steps
    /\ (run.pc = "failed" /\ run.failed_in \in {"read", "execute"}) =>
            /\ run.report = NoReport
            /\ run.pending = << >>
            /\ run.reads \in {run.executed, run.executed + 1}
            /\ run.failed_in = "execute" =>
                    (Executed /\ last.res = run.res /\ run.reads = run.executed)
    /\ run.report # NoReport =>
            /\ run.failed_in \in {"none", "write_account", "flush"}
            /\ run.reads = run.executed + 1
            /\ run.executed > 0 => (Executed \/ last.call = "account_summary")
            /\ run.report.rows[1] = [row |-> "header"]

\* C20 witness: the run failed in execute after earlier records had been
\* executed, leaving an account with entries and no report.
C20_Witness ==
    /\ run.pc = "failed"
    /\ run.failed_in = "execute"
    /\ run.executed >= 2
    /\ \E c \in DOMAIN accounts : DOMAIN accounts[c].ledger # {}
    /\ run.report = NoReport

----------------------------------------------------------------------------
\* Properties of a single Account across calls (checked under SpecAccount;
\* C24 and C29 under SpecAccountWide, whose third tx id lets a deposit or
\* withdrawal with a fresh tx id meet an account whose available is negative)

\* the last call was a deposit or a withdrawal
CalledCredit == last.call \in {"deposit", "withdraw"}

\* the last call was a dispute, a resolve or a chargeback
CalledClaim == last.call \in {"dispute", "resolve", "chargeback"}

\* C23: the order of calls matters. A dispute, resolve or chargeback that
\* comes before the deposit or withdrawal carrying its tx id has no effect
\* and leaves no trace: the deposit or withdrawal that follows is entered as
\* Normal with its full effect on available. A resolve or chargeback that
\* comes before the dispute (the entry is still Normal) has no effect either.
\* Swapping the two calls changes the outcome: a dispute after a deposit of a
\* positive amount leaves an account different from the one the other order
\* yields.
C23_OrderSensitivity ==
    /\ (CalledClaim /\ ~last.before.is_locked /\ ~KnownBefore) =>
            /\ last.res = Ok
            /\ account = last.before
            /\ \A amount \in 0..MaxAmount :
                  LET later   == deposit(account, last.tx_id, amount)
                      swapped == dispute(deposit(last.before, last.tx_id, amount).acc,
                                         last.tx_id)
                  IN  /\ later.res = Ok
                      /\ later.acc.ledger[last.tx_id] = LedgerEntry(amount, "Normal")
                      /\ later.acc.available = last.before.available + amount
                      /\ later.acc.held = last.before.held
                      /\ swapped.acc.ledger[last.tx_id].state = "Disputed"
                      /\ amount > 0 => summary(swapped.acc) # summary(later.acc)
            /\ \A amount \in 0..MaxAmount :
                  amount <= account.available =>
                      LET later == withdraw(account, last.tx_id, amount)
                      IN  /\ later.res = Ok
                          /\ later.acc.ledger[last.tx_id] = LedgerEntry(-amount, "Normal")
                          /\ later.acc.available = last.before.available - amount
                          /\ later.acc.held = last.before.held
    /\ (last.call \in {"resolve", "chargeback"} /\ ~last.before.is_locked
            /\ KnownBefore /\ StateBefore = "Normal") =>
            /\ last.res = Ok
            /\ account = last.before

\* C23 witness: a chargeback that addressed a tx id the ledger did not hold
\* yet, on an unlocked account that already held another entry and funds to
\* withdraw.
C23_Witness ==
    /\ CalledOp("chargeback")
    /\ ~last.before.is_locked
    /\ ~KnownBefore
    /\ DOMAIN last.before.ledger # {}
    /\ account.available > 0

\* C24: negative balances are not errors. A dispute of a Normal entry on an
\* unlocked account succeeds and moves the entry's signed amount from
\* available to held whatever the balances are, so available or held may go
\* below zero. On an account whose available or held is negative every
\* operation follows its ordinary rules: the only errors are the four
\* ordinary ones, a failed call leaves the negative balances as they were, a
\* valid deposit is accepted and adds its amount, and a dispute, resolve or
\* chargeback on an unlocked account succeeds.
C24_NegativeBalancesAllowed ==
    /\ (CalledOp("dispute") /\ ~last.before.is_locked /\ KnownBefore
            /\ StateBefore = "Normal") =>
            /\ last.res = Ok
            /\ account.available = last.before.available - AmountBefore
            /\ account.held = last.before.held + AmountBefore
    /\ (Called /\ (last.before.available < 0 \/ last.before.held < 0)) =>
            /\ IsErr(last.res) =>
                    /\ account = last.before
                    /\ last.res \in {InvalidOperation("twice"), InvalidOperation("locked"),
                                     InvalidArgument("negative"), InvalidArgument("greater")}
            /\ last.res = InvalidArgument("greater") =>
                    (CalledOp("withdraw") /\ last.amount > last.before.available)
            /\ (CalledOp("deposit") /\ ~KnownBefore /\ ~last.before.is_locked
                    /\ last.amount >= 0) =>
                    /\ last.res = Ok
                    /\ account.available = last.before.available + last.amount
                    /\ account.held = last.before.held
            /\ (CalledClaim /\ ~last.before.is_locked) => last.res = Ok

\* C24 witness: deposit 2, withdraw 1, dispute the deposit: the dispute
\* succeeded and left available = -1 and held = 2.
C24_Witness ==
    /\ CalledOp("dispute")
    /\ last.res = Ok
    /\ KnownBefore
    /\ last.before.available = 1
    /\ AmountBefore = 2
    /\ account.available = -1
    /\ account.held = 2

\* C24: the dispute of a withdrawal drove held below zero.
C24_NegativeHeldReached ==
    /\ CalledOp("dispute")
    /\ last.before.held = 0
    /\ account.held < 0

\* C24: a deposit was accepted by an account whose available was negative.
C24_DepositOnNegativeReached ==
    /\ CalledOp("deposit")
    /\ last.res = Ok
    /\ last.before.available < 0

\* C25: dispute and resolve never change total. Total changes only by a
\* successful deposit (plus the amount), a successful withdrawal (minus the
\* amount) and an effective chargeback (minus the signed amount of the
\* entry); every other call leaves it as it was.
C25_TotalChanges ==
    Called =>
        LET delta     == total(account) - total(last.before)
            effective == /\ CalledOp("chargeback")
                         /\ ~last.before.is_locked
                         /\ KnownBefore
                         /\ StateBefore = "Disputed"
        IN  /\ last.call \in {"dispute", "resolve"} => delta = 0
            /\ IsErr(last.res) => delta = 0
            /\ (CalledOp("deposit") /\ last.res = Ok) => delta = last.amount
            /\ (CalledOp("withdraw") /\ last.res = Ok) => delta = -last.amount
            /\ effective => delta = -AmountBefore
            /\ (CalledOp("chargeback") /\ ~effective) => delta = 0

\* C25 witness: the chargeback of a disputed withdrawal of a positive amount
\* raised total by that amount.
C25_Witness ==
    /\ CalledOp("chargeback")
    /\ KnownBefore
    /\ StateBefore = "Disputed"
    /\ AmountBefore < 0
    /\ total(account) = total(last.before) - AmountBefore

\* C25: a dispute moved a non-zero amount and total stayed.
C25_DisputeKeptTotalReached ==
    /\ CalledOp("dispute")
    /\ account.held # last.before.held
    /\ total(account) = total(last.before)

RECURSIVE SumOfAmounts(_, _)
\* the sum of the signed amounts of the entries of `ledger` under `keys`
SumOfAmounts(ledger, keys) ==
    IF keys = {}
    THEN 0
    ELSE LET k == CHOOSE k \in keys : TRUE
         IN  ledger[k].amount + SumOfAmounts(ledger, keys \ {k})

\* the tx ids of the entries of acc that are in `state`
EntriesIn(acc, state) == {t \in DOMAIN acc.ledger : acc.ledger[t].state = state}

\* C26: available is the sum of the signed amounts of the Normal entries and
\* held the sum of the signed amounts of the Disputed entries; ChargedBack
\* entries count for neither. So held is 0 whenever no entry is Disputed.
C26_BalancesFromLedger ==
    /\ account.available = SumOfAmounts(account.ledger, EntriesIn(account, "Normal"))
    /\ account.held = SumOfAmounts(account.ledger, EntriesIn(account, "Disputed"))
    /\ EntriesIn(account, "Disputed") = {} => account.held = 0

\* C26 witness: a ChargedBack entry of a non-zero amount next to a Disputed
\* entry of a non-zero amount.
C26_Witness ==
    /\ \E t \in EntriesIn(account, "ChargedBack") : account.ledger[t].amount # 0
    /\ \E t \in EntriesIn(account, "Disputed") : account.ledger[t].amount # 0

\* C26: Normal entries whose amounts add up, a deposit and a withdrawal.
C26_NormalSumReached ==
    /\ Cardinality(EntriesIn(account, "Normal")) = 2
    /\ \E t \in EntriesIn(account, "Normal") : account.ledger[t].amount < 0

\* C27: the account is locked exactly when its ledger holds a ChargedBack
\* entry, and it never holds more than one. Entries that are Disputed when
\* the chargeback happens stay Disputed, their amounts in held, whatever is
\* called afterwards.
C27_LockIffChargedBack ==
    /\ account.is_locked <=> EntriesIn(account, "ChargedBack") # {}
    /\ Cardinality(EntriesIn(account, "ChargedBack")) <= 1
    /\ (CalledOp("chargeback") /\ account.is_locked /\ ~last.before.is_locked) =>
            /\ EntriesIn(account, "ChargedBack") = {last.tx_id}
            /\ \A t \in DOMAIN last.before.ledger \ {last.tx_id} :
                  account.ledger[t] = last.before.ledger[t]
    /\ (Called /\ last.before.is_locked) =>
            /\ \A t \in EntriesIn(last.before, "Disputed") :
                  account.ledger[t] = last.before.ledger[t]
            /\ account.held = last.before.held

\* C27 witness: on a locked account a resolve addressed an entry that was
\* Disputed with a non-zero amount; the entry is still Disputed.
C27_Witness ==
    /\ CalledOp("resolve")
    /\ last.before.is_locked
    /\ KnownBefore
    /\ StateBefore = "Disputed"
    /\ AmountBefore # 0
    /\ account.ledger[last.tx_id].state = "Disputed"
    /\ account.held = AmountBefore

\* C29: deposit and withdraw check in this order: the tx id is already in
\* the ledger, the account is locked, the amount is negative, and (withdraw
\* only) the amount exceeds available. The first check that fails gives the
\* error; so a tx id already in the ledger is reported on a locked account
\* too, and a negative withdrawal is reported as negative even when
\* available is negative.
C29_CheckPrecedence ==
    CalledCredit =>
        last.res =
            IF KnownBefore THEN InvalidOperation("twice")
            ELSE IF last.before.is_locked THEN InvalidOperation("locked")
            ELSE IF last.amount < 0 THEN InvalidArgument("negative")
            ELSE IF CalledOp("withdraw") /\ last.amount > last.before.available
            THEN InvalidArgument("greater")
            ELSE Ok

\* C29 witness: a withdrawal of a negative amount, with a tx id already in
\* the ledger, on a locked account: every check but the last would fail,
\* and the duplicate is what is reported.
C29_Witness ==
    /\ CalledOp("withdraw")
    /\ KnownBefore
    /\ last.before.is_locked
    /\ last.amount < 0
    /\ last.res = InvalidOperation("twice")

\* C29: a negative withdrawal with a fresh tx id on an unlocked account
\* whose available was negative was reported as negative.
C29_NegativeOnOverdrawnReached ==
    /\ CalledOp("withdraw")
    /\ ~KnownBefore
    /\ ~last.before.is_locked
    /\ last.amount < 0
    /\ last.before.available < 0
    /\ last.res = InvalidArgument("negative")

\* C29: a fresh tx id on a locked account with a negative amount was
\* reported as locked.
C29_LockedBeforeNegativeReached ==
    /\ CalledCredit
    /\ ~KnownBefore
    /\ last.before.is_locked
    /\ last.amount < 0
    /\ last.res = InvalidOperation("locked")

\* C30: a failed deposit or withdrawal does not take its tx id. The ledger
\* gains a key only by a successful deposit or withdrawal, and then exactly
\* that call's tx id; entries are never removed and the amount of an entry
\* never changes. After a deposit or withdrawal was refused on an unlocked
\* account with a tx id the ledger does not hold, a deposit with that tx id
\* succeeds, a withdrawal the funds cover succeeds, and a dispute of that
\* tx id is a no-op.
C30_FailedTxIdNotConsumed ==
    Called =>
        /\ \A t \in DOMAIN last.before.ledger :
              /\ t \in DOMAIN account.ledger
              /\ account.ledger[t].amount = last.before.ledger[t].amount
        /\ DOMAIN account.ledger # DOMAIN last.before.ledger =>
              /\ CalledCredit
              /\ last.res = Ok
              /\ ~KnownBefore
              /\ DOMAIN account.ledger = DOMAIN last.before.ledger \cup {last.tx_id}
        /\ (CalledCredit /\ last.res = Ok) =>
              /\ ~KnownBefore
              /\ last.tx_id \in DOMAIN account.ledger
        /\ (CalledCredit /\ IsErr(last.res)) =>
              DOMAIN account.ledger = DOMAIN last.before.ledger
        /\ (CalledCredit /\ IsErr(last.res) /\ ~KnownBefore /\ ~last.before.is_locked) =>
              /\ \A amount \in 0..MaxAmount :
                    /\ deposit(account, last.tx_id, amount).res = Ok
                    /\ amount <= account.available =>
                          withdraw(account, last.tx_id, amount).res = Ok
              /\ dispute(account, last.tx_id) = [acc |-> account, res |-> Ok]

\* C30 witness: a withdrawal with a fresh tx id was refused for insufficient
\* funds on an unlocked account that holds funds and another entry.
C30_Witness ==
    /\ CalledOp("withdraw")
    /\ last.res = InvalidArgument("greater")
    /\ ~KnownBefore
    /\ ~last.before.is_locked
    /\ account.available > 0
    /\ DOMAIN account.ledger # {}

\* C30: a deposit succeeded with a tx id while the ledger held another
\* entry, which kept its amount.
C30_EntryKeptReached ==
    /\ CalledOp("deposit")
    /\ last.res = Ok
    /\ \E t \in DOMAIN last.before.ledger : last.before.ledger[t].amount # 0

----------------------------------------------------------------------------
\* Properties of the engine's set of accounts (checked under Spec)

\* C28: the account of a client is created by the first transaction that
\* names the client, whatever that transaction's outcome: the ids of the
\* engine's accounts are exactly the client ids handed to execute so far, so
\* no account is ever removed. When the first transaction fails or is a no-op
\* the account is as Account::new left it, and account_summary lists it with
\* zero balances and unlocked; account_summary lists one row for each client
\* id ever handed to execute and no other.
C28_AccountCreatedOnFirstReference ==
    /\ DOMAIN accounts = solo.seen
    /\ Executed =>
            /\ last.t.client_id \in DOMAIN accounts
            /\ DOMAIN accounts = DOMAIN last.engine \cup {last.t.client_id}
            /\ (~last.known /\ (IsErr(last.res)
                                \/ last.t.kind \in {"Dispute", "Resolve", "Chargeback"})) =>
                    accounts[last.t.client_id] = new(last.t.client_id)
    /\ last.call = "account_summary" =>
            /\ {last.out[i].id : i \in DOMAIN last.out} = solo.seen
            /\ Len(last.out) = Cardinality(solo.seen)
            /\ \A i \in DOMAIN last.out :
                  accounts[last.out[i].id] = new(last.out[i].id) =>
                      last.out[i] = [id |-> last.out[i].id, available |-> 0, held |-> 0,
                                     total |-> 0, is_locked |-> FALSE]

\* C28 witness: the first transaction of a client failed, and the account it
\* created is in the engine.
C28_Witness ==
    /\ Executed
    /\ ~last.known
    /\ IsErr(last.res)
    /\ last.t.client_id \in DOMAIN accounts
    /\ DOMAIN last.engine # {}

\* C28: account_summary listed two accounts, one of them an account for
\* which nothing ever succeeded.
C28_SummaryListsUntouchedReached ==
    /\ last.call = "account_summary"
    /\ Len(last.out) = 2
    /\ \E i \in DOMAIN last.out : accounts[last.out[i].id] = new(last.out[i].id)
    /\ \E i \in DOMAIN last.out : last.out[i].available > 0

----------------------------------------------------------------------------
\* Properties of the end of the run (checked under SpecRun)

\* run() has no step left to take
Stopped == ~ENABLED NextRun

\* run() returned Ok after writing the header and one row per account, in
\* ascending order of client id, and flushing
Completed ==
    /\ run.pc = "done"
    /\ run.errors = 0
    /\ run.res.kind = "Ok"
    /\ run.res.sink[1] = [row |-> "header"]
    /\ Len(run.res.sink) = 1 + Cardinality(DOMAIN accounts)
    /\ \A i \in 2..Len(run.res.sink) :
          /\ run.res.sink[i].row = "account"
          /\ run.res.sink[i].account.id \in DOMAIN accounts
          /\ run.res.sink[i].account = summary(accounts[run.res.sink[i].account.id])
    /\ \A i, j \in 2..Len(run.res.sink) :
          i < j => run.res.sink[i].account.id < run.res.sink[j].account.id

\* run() returned the one error that occurred
Aborted ==
    /\ run.pc = "failed"
    /\ run.errors = 1
    /\ IsErr(run.res)

\* C21: a run that has stopped has either consumed the whole input and
\* written and flushed the report of all accounts in ascending order of
\* client id, or returned the first error; it stops in no other way.
C21_RunEndsInOneOfTwo == Stopped => (Completed \/ Aborted)

\* C21: every run ends, under SpecRunFair: returned Ok, returned an error,
\* or panicked in from_reader.
C21_RunStops == <>Stopped

\* C21: a run that has stopped without a panic has completed or aborted.
C21_StoppedUnlessPanicked ==
    (Stopped /\ run.pc # "panicked") => (Completed \/ Aborted)

\* C21: a run completed with the rows of two accounts.
C21_CompletedReached ==
    /\ Completed
    /\ Len(run.res.sink) = 3

----------------------------------------------------------------------------
\* Properties of a CsvAccountReport (checked under SpecReport)

\* the last step was a call of write_account or flush
CalledReport == last.call \in {"write_account", "flush"}

\* the report had been flushed before the last call
FlushedBefore == last.before.writer = "None"

\* C22 as stated: after flush every later write_account and flush fails with
\* InvalidOperation and writes nothing; before flush write_account appends
\* the summary handed over; and once flush has been called the destination
\* has been handed back exactly once.
C22_ReturnedExactlyOnce ==
    CalledReport =>
        /\ FlushedBefore =>
                /\ last.res = InvalidOperation("flushed")
                /\ csv_report = last.before
                /\ last.out = << >>
        /\ (last.call = "write_account" /\ ~FlushedBefore /\ last.res = Ok) =>
                csv_report.rows = Append(last.before.rows,
                                         [row |-> "account", account |-> last.s])
        /\ last.flushes >= 1 => last.returned = 1

\* C22: after flush has been called, whether or not it succeeded, every
\* later write_account and flush fails with InvalidOperation and writes
\* nothing. Before flush a successful write_account appends the summary
\* handed over, so the rows are in the order of the calls, and a failed one
\* appends nothing. The first flush hands back the destination with all the
\* rows unless flushing fails with an IoError, in which case the destination
\* is never handed back; no flush after the first hands it back, so it is
\* handed back at most once.
C22_ReportLifecycle ==
    CalledReport =>
        /\ FlushedBefore =>
                /\ last.res = InvalidOperation("flushed")
                /\ csv_report = last.before
                /\ last.out = << >>
        /\ (last.call = "write_account" /\ ~FlushedBefore) =>
                /\ last.res \in {Ok, IoError("write")}
                /\ last.res = Ok =>
                        csv_report.rows = Append(last.before.rows,
                                                 [row |-> "account", account |-> last.s])
                /\ IsErr(last.res) => csv_report = last.before
        /\ (last.call = "flush" /\ ~FlushedBefore) =>
                /\ last.flushes = 1
                /\ last.res \in {Ok, IoError("write")}
                /\ last.res = Ok => (last.out = last.before.rows /\ last.returned = 1)
                /\ IsErr(last.res) => (last.out = << >> /\ last.returned = 0)
                /\ csv_report.rows = last.before.rows
        /\ last.flushes >= 1 => csv_report.writer = "None"
        /\ last.flushes = 0 => (csv_report.writer = "Some" /\ last.returned = 0)
        /\ last.returned <= 1

\* C22 witness: a second flush, after a flush that handed back the header
\* and two rows, failed with InvalidOperation.
C22_Witness ==
    /\ last.call = "flush"
    /\ FlushedBefore
    /\ last.flushes = 2
    /\ last.returned = 1
    /\ Len(csv_report.rows) = 3
    /\ last.res = InvalidOperation("flushed")

\* C22: a write_account after flush failed and wrote nothing.
C22_WriteAfterFlushReached ==
    /\ last.call = "write_account"
    /\ FlushedBefore
    /\ last.returned = 1
    /\ last.res = InvalidOperation("flushed")

\* C22: two different summaries were written in the order handed over.
C22_OrderKeptReached ==
    /\ last.call = "write_account"
    /\ last.res = Ok
    /\ Len(csv_report.rows) = 3
    /\ csv_report.rows[2].account.id > csv_report.rows[3].account.id

----------------------------------------------------------------------------
\* Properties of withdrawals and negative funds (checked under
\* SpecAccountWide)

\* C31: a successful withdrawal leaves available at or above zero. While
\* available is negative every withdrawal fails and changes nothing, a
\* withdrawal of amount 0 included: with a fresh tx id on an unlocked account
\* it is refused as greater than available. Available goes from at or above
\* zero to below zero only by a dispute of a deposit or by a resolve of a
\* disputed withdrawal; a deposit never lowers available, and after a
\* deposit or a withdrawal available is negative only if it was negative
\* before the call.
C31_WithdrawNeverOverdraws ==
    Called =>
        /\ (CalledOp("withdraw") /\ last.res = Ok) =>
                /\ last.amount <= last.before.available
                /\ account.available >= 0
        /\ (CalledOp("withdraw") /\ last.before.available < 0) =>
                /\ IsErr(last.res)
                /\ account = last.before
                /\ (~KnownBefore /\ ~last.before.is_locked /\ last.amount >= 0) =>
                        last.res = InvalidArgument("greater")
        /\ (last.before.available >= 0 /\ account.available < 0) =>
                /\ last.res = Ok
                /\ ~last.before.is_locked
                /\ KnownBefore
                /\ \/ CalledOp("dispute") /\ StateBefore = "Normal" /\ AmountBefore > 0
                   \/ CalledOp("resolve") /\ StateBefore = "Disputed" /\ AmountBefore < 0
        /\ CalledOp("deposit") => account.available >= last.before.available
        /\ (CalledCredit /\ account.available < 0) => last.before.available < 0

\* C31 witness: a withdrawal of amount 0 with a fresh tx id on an unlocked
\* account whose available was negative was refused as greater than
\* available.
C31_Witness ==
    /\ CalledOp("withdraw")
    /\ last.amount = 0
    /\ ~KnownBefore
    /\ ~last.before.is_locked
    /\ last.before.available < 0
    /\ last.res = InvalidArgument("greater")

\* C31: the resolve of a disputed withdrawal took available below zero.
C31_ResolveOverdrewReached ==
    /\ CalledOp("resolve")
    /\ KnownBefore
    /\ StateBefore = "Disputed"
    /\ AmountBefore < 0
    /\ last.before.available >= 0
    /\ account.available < 0

\* C31: the dispute of a deposit took available below zero.
C31_DisputeOverdrewReached ==
    /\ CalledOp("dispute")
    /\ KnownBefore
    /\ AmountBefore > 0
    /\ last.before.available >= 0
    /\ account.available < 0

\* C31: a withdrawal emptied the account exactly.
C31_WithdrawToZeroReached ==
    /\ CalledOp("withdraw")
    /\ last.res = Ok
    /\ last.amount > 0
    /\ account.available = 0

====
